---- MODULE Spec2Model ----
(***************************************************************************)
(* Speech-activity verification pipeline of the exam-proctoring backend   *)
(* (backend/speech_detection.py): the process-wide model handle, the      *)
(* model loader and the two detection functions, each modelled statement  *)
(* block by statement block.  The libraries the functions call (pydub,    *)
(* librosa, noisereduce, Silero VAD) are deterministic functions of the   *)
(* audio they are given; what they answer for a clip is part of the clip  *)
(* the call is made with.                                                  *)
(***************************************************************************)
EXTENDS Integers, Sequences, FiniteSets, TLC

VARIABLES
    _model,     \* speech_detection._model: 0 is None, n > 0 the n-th load
    _utils,     \* speech_detection._utils: 0 is None, n > 0 the n-th load
    loads,      \* number of successful torch.hub.load calls so far
    init_ret,   \* what initialize_speech_detection returned last ("none": not run)
    call,       \* call[c]: the frame of detection call c (locals and position)
    probe,      \* one application of has_voicing: what pyin answered, the result
    init,       \* the frame of a call of initialize_speech_detection under way
    _state,     \* the recurrent state inside the model object _model is bound to
    exam_logs,  \* table exam_logs: the reasons of its rows, oldest first
    questions,  \* table questions: its rows, each a dict from column to value
    reply,      \* the answer to the last request on a route of server.py
    mix,        \* one application of lines 83-88: the decoded audio, the samples
    admins,     \* table admins: its rows
    admin_sessions  \* table admin_sessions: its rows, oldest first

vars == <<_model, _utils, loads, init_ret, call, probe, init, _state, exam_logs,
          questions, reply, mix, admins, admin_sessions>>

\* the tables of the login route
logins == <<admins, admin_sessions>>

\* the variables of the questions routes and of the applications of the
\* pure parts, which no step of the speech module touches
aux == <<probe, questions, reply, mix, logins>>

----------------------------------------------------------------------------
(* Program constants *)

\* SR = 16000
SR == 16000

\* MIN_SPEECH_DURATION = 0.3, as the fraction MinDurNum / MinDurDen
MinDurNum == 3
MinDurDen == 10

\* the literal 0.15 of has_voicing, as the fraction VoicedNum / VoicedDen
VoicedNum == 15
VoicedDen == 100

\* None, for _model and _utils
None == 0

----------------------------------------------------------------------------
(* Bounds of the model *)

\* successful (re)loads of the model in one run
MaxLoads == 2
\* segments the segmenter reports for one clip
MaxSegs == 2
\* a segment below the duration threshold is short by this many samples
ShortBy == 1
\* a segment above the duration threshold is long by this many samples
LongBy == 1
\* samples of silence between two reported segments
GapSamples == 1600
\* analysis frames pyin reports for one segment
NumFrames == 20

\* rows of exam_logs after which no further call is made and no further
\* row posted
MaxLogs == 1

\* rows of the questions table
MaxRows == 3

\* frames of a decoded clip whose samples are followed one by one
MaxFrames == 2

\* rows of admin_sessions after which no further login is made
MaxSessions == 2

\* the elements of a sequence
Range(q) == {q[k] : k \in 1..Len(q)}

\* the detection calls: two, which is what the pairwise statements need
Calls == {1, 2}

----------------------------------------------------------------------------
(* Strings: a Python str is a sequence of one-character strings *)

\* str.lower(), per character (ASCII)
LowerChar(ch) ==
    CASE ch = "A" -> "a" [] ch = "B" -> "b" [] ch = "C" -> "c"
      [] ch = "D" -> "d" [] ch = "E" -> "e" [] ch = "F" -> "f"
      [] ch = "G" -> "g" [] ch = "H" -> "h" [] ch = "I" -> "i"
      [] ch = "J" -> "j" [] ch = "K" -> "k" [] ch = "L" -> "l"
      [] ch = "M" -> "m" [] ch = "N" -> "n" [] ch = "O" -> "o"
      [] ch = "P" -> "p" [] ch = "Q" -> "q" [] ch = "R" -> "r"
      [] ch = "S" -> "s" [] ch = "T" -> "t" [] ch = "U" -> "u"
      [] ch = "V" -> "v" [] ch = "W" -> "w" [] ch = "X" -> "x"
      [] ch = "Y" -> "y" [] ch = "Z" -> "z"
      [] OTHER -> ch

\* str.lower()
Lower(s) == [i \in 1..Len(s) |-> LowerChar(s[i])]

\* sub in s
Contains(sub, s) ==
    \E k \in 0..(Len(s) - Len(sub)) :
        \A i \in 1..Len(sub) : s[k + i] = sub[i]

StrWebm == <<"w", "e", "b", "m">>
StrWav == <<"w", "a", "v">>
StrMp3 == <<"m", "p", "3">>

\* lines 72-79: the format chosen from the MIME hint
SelectFormat(mime_type) ==
    IF Contains(StrWebm, Lower(mime_type)) THEN "webm"
    ELSE IF Contains(StrWav, Lower(mime_type)) THEN "wav"
    ELSE IF Contains(StrMp3, Lower(mime_type)) THEN "mp3"
    ELSE "webm"

----------------------------------------------------------------------------
(* has_voicing (lines 37-45) *)

\* what librosa.pyin can answer for a slice: it raises, or it returns a
\* voiced_flag that is None or an array of booleans, one per analysis frame
PyinRaise == [kind |-> "raise", voiced_flag |-> <<>>]
PyinNone == [kind |-> "None", voiced_flag |-> <<>>]
PyinFlags(flags) == [kind |-> "array", voiced_flag |-> flags]

\* np.isnan of one element of a boolean array: a boolean is never NaN
IsNan(b) == FALSE

\* np.isnan(voiced_flag).all(): true of the empty array
IsNanAll(voiced_flag) == \A i \in 1..Len(voiced_flag) : IsNan(voiced_flag[i])

\* the sum of voiced_flag.astype(float)
RECURSIVE SumFlags(_)
SumFlags(voiced_flag) ==
    IF voiced_flag = <<>> THEN 0
    ELSE (IF Head(voiced_flag) THEN 1 ELSE 0) + SumFlags(Tail(voiced_flag))

\* has_voicing with >= in place of > at line 43
MeanAtLeastThreshold(voiced_flag) ==
    SumFlags(voiced_flag) * VoicedDen >= VoicedNum * Len(voiced_flag)

\* line 43: np.nanmean(voiced_flag.astype(float)) > 0.15.  The mean is the
\* quotient SumFlags / Len; for an array of at most a few thousand frames the
\* rounded quotient exceeds the double 0.15 exactly when the fraction
\* exceeds 15/100.
MeanAboveThreshold(voiced_flag) ==
    SumFlags(voiced_flag) * VoicedDen > VoicedNum * Len(voiced_flag)

\* has_voicing whose handler at lines 44-45 returns True
has_voicingFailOpen(pyin) ==
    IF pyin.kind = "raise" THEN TRUE
    ELSE IF pyin.kind = "None" \/ IsNanAll(pyin.voiced_flag) THEN FALSE
    ELSE SumFlags(pyin.voiced_flag) * VoicedDen
            > VoicedNum * Len(pyin.voiced_flag)

\* has_voicing's return value, given what pyin answers for the segment
has_voicing(pyin) ==
    IF pyin.kind = "raise" THEN FALSE                                 \* 44-45
    ELSE IF pyin.kind = "None" \/ IsNanAll(pyin.voiced_flag) THEN FALSE  \* 41-42
    ELSE MeanAboveThreshold(pyin.voiced_flag)                          \* 43

\* no application of has_voicing
NoProbe == [pyin |-> PyinNone, out |-> "none"]

----------------------------------------------------------------------------
(* The inputs of a detection call *)

\* MIME hints: "audio/webm", "AUDIO/WAV", "audio/mp3", "audio/ogg",
\* "audio/wav;codecs=webm" (names two formats) and ""
MimeWebm == <<"a","u","d","i","o","/","w","e","b","m">>
MimeWavUpper == <<"A","U","D","I","O","/","W","A","V">>
MimeMp3 == <<"a","u","d","i","o","/","m","p","3">>
MimeOgg == <<"a","u","d","i","o","/","o","g","g">>
MimeWavWebm == <<"a","u","d","i","o","/","w","a","v",";","w","e","b","m">>
MimeEmpty == <<>>
MimeHints == {MimeWebm, MimeWavUpper, MimeMp3, MimeOgg, MimeWavWebm, MimeEmpty}

\* what the payload holds: nothing, bytes that are no audio, the head of a
\* wav file cut short, or a whole file of one of the three containers
Containers == {"webm", "wav", "mp3"}
Payloads == {"empty", "garbage", "truncated"} \cup Containers

\* the number of samples at which (end - start) / SR reaches MIN_SPEECH_DURATION
ThresholdSamples == (MinDurNum * SR) \div MinDurDen

\* segment lengths: just below, at, and just above the duration threshold
SegLengths ==
    {ThresholdSamples - ShortBy, ThresholdSamples, ThresholdSamples + LongBy}

\* voiced_flag with the first k of n frames voiced
Flags(k, n) == [i \in 1..n |-> i <= k]

\* the largest number of voiced frames of NumFrames that is not above 0.15
ThresholdVoiced == (VoicedNum * NumFrames) \div VoicedDen

\* what pyin answers for a segment: a failure, an empty array, no voiced
\* frame, the fraction at the threshold, the fraction just above it
PyinAnswers ==
    {PyinRaise, PyinFlags(<<>>), PyinFlags(Flags(0, NumFrames)),
     PyinFlags(Flags(ThresholdVoiced, NumFrames)),
     PyinFlags(Flags(ThresholdVoiced + 1, NumFrames))}

\* the segmenter's answer for lengths lens: time-ascending spans
\* [start, end) separated by GapSamples of silence
RECURSIVE Spans(_, _)
Spans(lens, from) ==
    IF lens = <<>> THEN <<>>
    ELSE <<[start |-> from, end |-> from + Head(lens)]>>
         \o Spans(Tail(lens), from + Head(lens) + GapSamples)

SeqsUpTo(S, n) == UNION {[1..k -> S] : k \in 0..n}

\* a clip with a valid wav payload and the answers the libraries give for it
BaseInput ==
    [fn |-> "bytes", mime_none |-> FALSE, mime_type |-> MimeWavUpper,
     payload |-> "wav", channels |-> 1, resample |-> "ok",
     denoise |-> "same", vad |-> "ok", segments |-> <<>>, pyin |-> <<>>]

\* calls that differ in the function called, the hint and the payload
DecodeInputs ==
    {[BaseInput EXCEPT !.mime_type = m, !.payload = p] :
        m \in MimeHints, p \in Payloads}
    \cup {[BaseInput EXCEPT !.mime_none = TRUE, !.payload = p] : p \in Payloads}
    \cup {[BaseInput EXCEPT !.fn = "file", !.payload = p] : p \in Payloads}

\* decodable clips that differ in channels and in which stage fails
StageInputs ==
    {[BaseInput EXCEPT !.fn = f, !.channels = ch, !.resample = r,
                       !.denoise = d, !.vad = v] :
        f \in {"bytes", "file"}, ch \in {1, 2, 6}, r \in {"ok", "raise"},
        d \in {"raise", "same", "mute"}, v \in {"ok", "raise"}}

\* decodable clips that differ in what the segmenter and pyin answer
SegmentInputs ==
    {[BaseInput EXCEPT !.fn = f,
                       !.segments = Spans(lens, 0), !.pyin = py] :
        f \in {"bytes", "file"},
        lens \in SeqsUpTo(SegLengths, MaxSegs),
        py \in SeqsUpTo(PyinAnswers, MaxSegs)}

\* clips with one span on which noise reduction raises, or which it mutes
MutedInputs ==
    {[BaseInput EXCEPT !.fn = f, !.denoise = d,
                       !.segments = Spans(<<len>>, 0), !.pyin = <<py>>] :
        f \in {"bytes", "file"}, d \in {"raise", "mute"},
        len \in SegLengths, py \in PyinAnswers}

Inputs ==
    DecodeInputs \cup StageInputs \cup MutedInputs
    \cup {in \in SegmentInputs : Len(in.pyin) = Len(in.segments)}

----------------------------------------------------------------------------
(* What the libraries answer *)

\* AudioSegment.from_file(audio_io, format=format): the payload decodes when
\* it is a whole file of the container the format names
DecodesAs(payload, format) == payload \in Containers /\ payload = format

\* AudioSegment.from_file(file_path): the container is probed, so the payload
\* decodes when it is a whole file of any supported container
DecodesProbed(payload) == payload \in Containers

\* get_speech_timestamps(wav, _model, sampling_rate=SR): the spans of the
\* clip; noise reduction that mutes the clip leaves no span in its output
VadAnswer(in, wav) ==
    IF wav = "denoised" /\ in.denoise = "mute" THEN <<>> ELSE in.segments

\* The model object is a recurrent network: an inference leaves in it the
\* state the clip's last window produced. The segmenter is stateless per
\* call: it resets the state of the object it is handed before the first
\* window.
ResetStates(state) == "fresh"

\* the segmenter starting from whatever state the object is in
KeepStates(state) == state

\* the segmenter's answer when its first window is read in state: from the
\* state an earlier clip left, the spans found are not those of this clip
\* alone (here: none)
VadAnswerFrom(in, wav, state) ==
    IF state = "fresh" THEN VadAnswer(in, wav) ELSE <<>>

\* librosa.pyin on the slice wav[start:end] of the i-th span
PyinAnswer(in, i) == in.pyin[i]

----------------------------------------------------------------------------
(* The frame of a detection call *)

\* the frame before the call starts; exc is the exception the call lets
\* escape to its caller, response what the service answers the request,
\* raced whether its inference ran beside another on the same handle,
\* vad_state the state the model object was in when the segmenter was called,
\* logs_before the number of rows of exam_logs when the call was made
IdleFrame ==
    [pc |-> "idle", arg |-> BaseInput, seen |-> <<None, None>>,
     get_speech_timestamps |-> None, format |-> "none", channels |-> 0,
     samples |-> "none", wav |-> "none", vad_wav |-> "none",
     vad_model |-> None, vad_state |-> "none", speech_segments |-> <<>>,
     i |-> 1,
     ret |-> "none", exc |-> "none", caught |-> "none", exit |-> "none",
     ran |-> {}, examined |-> <<>>, verified |-> <<>>,
     raced |-> FALSE, logs_before |-> 0,
     response |-> [status |-> 0, detail |-> "", speech_detected |-> "none"]]

\* lines 114-116 (164-166): the handler around the body logs and returns False
Except(f, origin) ==
    [f EXCEPT !.pc = "done", !.caught = origin, !.ret = "False",
              !.exit = "handler"]

\* a return statement of the body: "unavailable" is line 62 (127),
\* "detected" line 110 (160), "not_detected" line 112 (162)
Return(f, value, where) ==
    [f EXCEPT !.pc = "done", !.ret = value, !.exit = where]

\* the duration test with <= in place of <
TooShortOrEqual(seg) == (seg.end - seg.start) * MinDurDen <= MinDurNum * SR

\* the duration test left out
TooShortNever(seg) == FALSE

\* line 105 (156): dur < MIN_SPEECH_DURATION with dur = (end - start) / SR.
\* The division is correctly rounded and 0.3 is the double nearest 3/10, so
\* the comparison of doubles agrees with the comparison of the fractions.
TooShort(seg) == (seg.end - seg.start) * MinDurDen < MinDurNum * SR

----------------------------------------------------------------------------
(* initialize_speech_detection (lines 21-35) *)

\* no call of initialize_speech_detection is under way
IdleInit == [pc |-> "idle", loaded |-> None]

\* torch.hub.load returns: both globals are bound to the new load, a model
\* object no audio has gone through
InitializeOk ==
    /\ loads < MaxLoads
    /\ loads' = loads + 1
    /\ _model' = loads + 1
    /\ _utils' = loads + 1
    /\ init_ret' = "True"
    /\ _state' = "fresh"
    /\ UNCHANGED <<call, init, exam_logs, aux>>

\* torch.hub.load raises: nothing is bound, False is returned
InitializeFail ==
    /\ init_ret' = "False"
    /\ UNCHANGED <<_model, _utils, loads, call, init, _state, exam_logs, aux>>

\* The same function step by step, for the runs in which detection calls
\* proceed in other threads while it executes. The assignment of line 26
\* compiles to two stores, _model first, and a thread switch can fall
\* between them.

\* line 21: the function is entered
InitStart ==
    /\ init.pc = "idle"
    /\ init' = [init EXCEPT !.pc = "load"]
    /\ UNCHANGED <<_model, _utils, loads, init_ret, call, _state, exam_logs, aux>>

\* lines 26-30: torch.hub.load returns a new pair
InitLoaded ==
    /\ init.pc = "load"
    /\ loads < MaxLoads
    /\ loads' = loads + 1
    /\ init' = [pc |-> "store_model", loaded |-> loads + 1]
    /\ UNCHANGED <<_model, _utils, init_ret, call, _state, exam_logs, aux>>

\* lines 26-30, 33-35: torch.hub.load raises, False is returned
InitLoadRaises ==
    /\ init.pc = "load"
    /\ init' = IdleInit
    /\ init_ret' = "False"
    /\ UNCHANGED <<_model, _utils, loads, call, _state, exam_logs, aux>>

\* line 26, first target
InitStoreModel ==
    /\ init.pc = "store_model"
    /\ _model' = init.loaded
    /\ _state' = "fresh"
    /\ init' = [init EXCEPT !.pc = "store_utils"]
    /\ UNCHANGED <<_utils, loads, init_ret, call, exam_logs, aux>>

\* line 26, second target
InitStoreUtils ==
    /\ init.pc = "store_utils"
    /\ _utils' = init.loaded
    /\ init' = [init EXCEPT !.pc = "return"]
    /\ UNCHANGED <<_model, loads, init_ret, call, _state, exam_logs, aux>>

\* lines 31-32
InitReturn ==
    /\ init.pc = "return"
    /\ init' = IdleInit
    /\ init_ret' = "True"
    /\ UNCHANGED <<_model, _utils, loads, call, _state, exam_logs, aux>>

----------------------------------------------------------------------------
(* detect_speech_from_bytes (lines 47-116), detect_speech_from_file (118-166) *)

\* the call is made with input in
Call(c, in) ==
    /\ call[c].pc = "idle"
    /\ call' = [call EXCEPT ![c] =
          [IdleFrame EXCEPT !.pc = "check", !.arg = in,
                            !.logs_before = Len(exam_logs)]]
    /\ UNCHANGED <<_model, _utils, loads, init_ret, init, _state, exam_logs, aux>>

\* lines 60-62 (125-127)
CheckModel(c) ==
    LET f == [call[c] EXCEPT !.seen = <<_model, _utils>>] IN
    /\ call[c].pc = "check"
    /\ call' = [call EXCEPT ![c] =
          IF _model = None \/ _utils = None
          THEN Return(f, "False", "unavailable")
          ELSE [f EXCEPT !.pc = "utils"]]
    /\ UNCHANGED <<_model, _utils, loads, init_ret, init, _state, exam_logs, aux>>

\* line 66 (130): get_speech_timestamps = _utils[0]
GetUtils(c) ==
    LET f == call[c] IN
    /\ f.pc = "utils"
    /\ call' = [call EXCEPT ![c] =
          IF _utils = None
          THEN Except(f, "utils")
          ELSE [f EXCEPT !.pc = "decode", !.get_speech_timestamps = _utils]]
    /\ UNCHANGED <<_model, _utils, loads, init_ret, init, _state, exam_logs, aux>>

\* the decode with what could be read of a broken payload passed on
DecodeBytesPartial(f) ==
    IF f.arg.mime_none
    THEN Except(f, "mime")
    ELSE LET format == SelectFormat(f.arg.mime_type) IN
         [f EXCEPT !.pc = "downmix", !.format = format,
                   !.channels = f.arg.channels, !.samples = "interleaved",
                   !.ran = @ \cup {"decode"}]

\* lines 69-84: the format, the decode, the samples and their normalisation
DecodeBytes(f) ==
    IF f.arg.mime_none
    THEN Except(f, "mime")
    ELSE LET format == SelectFormat(f.arg.mime_type) IN
         IF ~DecodesAs(f.arg.payload, format)
         THEN Except([f EXCEPT !.format = format], "decode")
         ELSE [f EXCEPT !.pc = "downmix", !.format = format,
                        !.channels = f.arg.channels, !.samples = "interleaved",
                        !.ran = @ \cup {"decode"}]

\* lines 133-135
DecodeFile(f) ==
    IF ~DecodesProbed(f.arg.payload)
    THEN Except(f, "decode")
    ELSE [f EXCEPT !.pc = "downmix", !.channels = f.arg.channels,
                   !.samples = "interleaved", !.ran = @ \cup {"decode"}]

Decode(c) ==
    LET f == call[c] IN
    /\ f.pc = "decode"
    /\ call' = [call EXCEPT ![c] =
          IF f.arg.fn = "bytes" THEN DecodeBytes(f) ELSE DecodeFile(f)]
    /\ UNCHANGED <<_model, _utils, loads, init_ret, init, _state, exam_logs, aux>>

\* lines 86-88 (137-139): two channels are averaged; one channel is mono as
\* it is; any other count is passed on interleaved
Downmix(c) ==
    LET f == call[c] IN
    /\ f.pc = "downmix"
    /\ call' = [call EXCEPT ![c] =
          [f EXCEPT !.pc = "resample",
                    !.samples = IF f.channels = 2 \/ f.channels = 1
                                THEN "mono" ELSE "interleaved",
                    !.ran = @ \cup (IF f.channels = 2 THEN {"downmix"} ELSE {})]]
    /\ UNCHANGED <<_model, _utils, loads, init_ret, init, _state, exam_logs, aux>>

\* line 91 (142)
Resample(c) ==
    LET f == call[c] IN
    /\ f.pc = "resample"
    /\ call' = [call EXCEPT ![c] =
          IF f.arg.resample = "raise"
          THEN Except(f, "resample")
          ELSE [f EXCEPT !.pc = "denoise", !.wav = "resampled",
                         !.ran = @ \cup {"resample"}]]
    /\ UNCHANGED <<_model, _utils, loads, init_ret, init, _state, exam_logs, aux>>

\* the noise-reduction stage without its own try: a failure of reduce_noise
\* reaches the handler around the body
DenoiseFatal(c) ==
    LET f == call[c] IN
    /\ f.pc = "denoise"
    /\ call' = [call EXCEPT ![c] =
          IF f.arg.denoise = "raise"
          THEN Except(f, "denoise")
          ELSE [f EXCEPT !.pc = "vad", !.wav = "denoised",
                         !.ran = @ \cup {"denoise"}]]
    /\ UNCHANGED <<_model, _utils, loads, init_ret, init, _state, exam_logs, aux>>

\* lines 94-97 (145-148): a failure of reduce_noise is passed over
Denoise(c) ==
    LET f == call[c] IN
    /\ f.pc = "denoise"
    /\ call' = [call EXCEPT ![c] =
          IF f.arg.denoise = "raise"
          THEN [f EXCEPT !.pc = "vad", !.ran = @ \cup {"denoise_failed"}]
          ELSE [f EXCEPT !.pc = "vad", !.wav = "denoised",
                         !.ran = @ \cup {"denoise"}]]
    /\ UNCHANGED <<_model, _utils, loads, init_ret, init, _state, exam_logs, aux>>

\* line 100 with a segmenter that does not reset the object: the windows
\* are read from the state the call before left
VadKeepsState(c) ==
    LET f == [call[c] EXCEPT !.vad_wav = call[c].wav, !.vad_model = _model,
                             !.vad_state = _state,
                             !.ran = @ \cup {"vad"}] IN
    /\ call[c].pc = "vad"
    /\ call' = [call EXCEPT ![c] =
          IF f.arg.vad = "raise"
          THEN Except(f, "vad")
          ELSE [f EXCEPT !.pc = "loop",
                         !.speech_segments =
                             VadAnswerFrom(f.arg, f.wav, KeepStates(_state))]]
    /\ _state' = "residual"
    /\ UNCHANGED <<_model, _utils, loads, init_ret, init, exam_logs, aux>>

\* line 100: the call hands its own wav and the object _model is bound to,
\* the one every call is handed, to the segmenter
Vad(c) ==
    LET f == [call[c] EXCEPT !.vad_wav = call[c].wav, !.vad_model = _model,
                             !.vad_state = _state,
                             !.ran = @ \cup {"vad"}] IN
    /\ call[c].pc = "vad"
    /\ call' = [call EXCEPT ![c] =
          IF f.arg.vad = "raise"
          THEN Except(f, "vad")
          ELSE [f EXCEPT !.pc = "loop",
                         !.speech_segments =
                             VadAnswerFrom(f.arg, f.wav, ResetStates(_state))]]
    /\ _state' = "residual"
    /\ UNCHANGED <<_model, _utils, loads, init_ret, init, exam_logs, aux>>

\* The same line in two steps, for the runs in which calls proceed in
\* several threads: the segmenter is entered with the handle _model holds at
\* that moment, and it returns later. Nothing is acquired before the entry.

\* the calls other than c that are inside the segmenter with handle m
Beside(c, m) ==
    {d \in Calls \ {c} : call[d].pc = "inference" /\ call[d].vad_model = m}

\* line 100 (151): get_speech_timestamps(wav, _model, ...) is entered
VadEnter(c) ==
    /\ call[c].pc = "vad"
    /\ call' = [d \in Calls |->
          IF d = c
          THEN [call[c] EXCEPT !.pc = "inference", !.vad_wav = call[c].wav,
                               !.vad_model = _model, !.vad_state = _state,
                               !.ran = @ \cup {"vad"},
                               !.raced = Beside(c, _model) # {}]
          ELSE IF d \in Beside(c, _model)
          THEN [call[d] EXCEPT !.raced = TRUE]
          ELSE call[d]]
    /\ _state' = "residual"
    /\ UNCHANGED <<_model, _utils, loads, init_ret, init, exam_logs, aux>>

\* what the segmenter of call f can come back with: its answer for the
\* waveform, or, having run beside another inference on the same handle
\* (whose recurrent state both mutate), that answer, no span, or an error
VadOutcomes(f) ==
    LET own == IF f.arg.vad = "raise"
               THEN [raise |-> TRUE, segments |-> <<>>]
               ELSE [raise |-> FALSE,
                     segments |-> VadAnswerFrom(f.arg, f.wav,
                                                ResetStates(f.vad_state))]
    IN  IF f.raced
        THEN {own, [raise |-> FALSE, segments |-> <<>>],
              [raise |-> TRUE, segments |-> <<>>]}
        ELSE {own}

\* line 100 (151): get_speech_timestamps returns or raises
VadLeave(c) ==
    LET f == call[c] IN
    /\ f.pc = "inference"
    /\ \E o \in VadOutcomes(f) :
          call' = [call EXCEPT ![c] =
              IF o.raise
              THEN Except(f, "vad")
              ELSE [f EXCEPT !.pc = "loop", !.speech_segments = o.segments]]
    /\ UNCHANGED <<_model, _utils, loads, init_ret, init, _state, exam_logs, aux>>

\* has_voicing answering True noted and the loop going on to the next span
VerifyGoesOn(f) ==
    LET g == [f EXCEPT !.verified = Append(@, f.i)] IN
    IF has_voicing(PyinAnswer(f.arg, f.i))
    THEN IF f.i = Len(f.speech_segments)
         THEN Return(g, "True", "detected")
         ELSE [g EXCEPT !.i = @ + 1]
    ELSE [g EXCEPT !.i = @ + 1]

\* lines 107-110 (158-160): the slice is handed to has_voicing
Verify(f) ==
    LET g == [f EXCEPT !.verified = Append(@, f.i)] IN
    IF has_voicing(PyinAnswer(f.arg, f.i))
    THEN Return(g, "True", "detected")
    ELSE [g EXCEPT !.i = @ + 1]

\* the loop with True returned at line 112 (162), when no span was admitted
LoopAdmitsAtEnd(c) ==
    LET f == call[c] IN
    /\ f.pc = "loop"
    /\ call' = [call EXCEPT ![c] =
          IF f.i > Len(f.speech_segments)
          THEN Return(f, "True", "detected")
          ELSE LET g == [f EXCEPT !.examined = Append(@, f.i)] IN
               IF TooShort(f.speech_segments[f.i])
               THEN [g EXCEPT !.i = @ + 1]
               ELSE Verify(g)]
    /\ UNCHANGED <<_model, _utils, loads, init_ret, init, _state, exam_logs, aux>>

\* the loop writing the row of exam_logs itself when it returns True
LoopLogging(c) ==
    LET f == call[c] IN
    /\ f.pc = "loop"
    /\ call' = [call EXCEPT ![c] =
          IF f.i > Len(f.speech_segments)
          THEN Return(f, "False", "not_detected")
          ELSE LET g == [f EXCEPT !.examined = Append(@, f.i)] IN
               IF TooShort(f.speech_segments[f.i])
               THEN [g EXCEPT !.i = @ + 1]
               ELSE Verify(g)]
    /\ exam_logs' = IF call'[c].ret = "True"
                    THEN Append(exam_logs, [reason |-> "SPEECH_DETECTED"])
                    ELSE exam_logs
    /\ UNCHANGED <<_model, _utils, loads, init_ret, init, _state, aux>>

\* lines 102-112 (153-162): one turn of the loop, or its end
Loop(c) ==
    LET f == call[c] IN
    /\ f.pc = "loop"
    /\ call' = [call EXCEPT ![c] =
          IF f.i > Len(f.speech_segments)
          THEN Return(f, "False", "not_detected")
          ELSE LET g == [f EXCEPT !.examined = Append(@, f.i)] IN
               IF TooShort(f.speech_segments[f.i])
               THEN [g EXCEPT !.i = @ + 1]
               ELSE Verify(g)]
    /\ UNCHANGED <<_model, _utils, loads, init_ret, init, _state, exam_logs, aux>>

\* POST /api/exam/detect-speech, the caller of detect_speech_from_bytes: an
\* exception of the call is answered 500 "Speech detection failed", a
\* returned value 200 with speech_detected; for a returned True a row with
\* the reason SPEECH_DETECTED is first added to exam_logs
Respond(c) ==
    LET f == call[c] IN
    /\ f.pc = "done"
    /\ f.arg.fn = "bytes"
    /\ call' = [call EXCEPT ![c] =
          [f EXCEPT !.pc = "responded",
                    !.response =
                        IF f.exc # "none"
                        THEN [status |-> 500,
                              detail |-> "Speech detection failed",
                              speech_detected |-> "none"]
                        ELSE [status |-> 200, detail |-> "",
                              speech_detected |-> f.ret]]]
    /\ exam_logs' = IF f.exc = "none" /\ f.ret = "True"
                    THEN Append(exam_logs, [reason |-> "SPEECH_DETECTED"])
                    ELSE exam_logs
    /\ UNCHANGED <<_model, _utils, loads, init_ret, init, _state, aux>>

\* the caller has taken the result and the frame is gone
Finish(c) ==
    /\ \/ call[c].pc = "responded"
       \/ call[c].pc = "done" /\ call[c].arg.fn = "file"
    /\ call' = [call EXCEPT ![c] = IdleFrame]
    /\ UNCHANGED <<_model, _utils, loads, init_ret, init, _state, exam_logs, aux>>

----------------------------------------------------------------------------
(* detect_speech_from_file (lines 118-166), from its own lines *)

\* a frame is of a call of detect_speech_from_file
OfFile(f) == f.arg.fn = "file"

\* lines 164-166: the handler around the body logs and returns False
ExceptFile(f, origin) ==
    [f EXCEPT !.pc = "done", !.caught = origin, !.ret = "False",
              !.exit = "handler"]

\* lines 125-127
CheckModelFile(c) ==
    LET f == [call[c] EXCEPT !.seen = <<_model, _utils>>] IN
    /\ OfFile(call[c])
    /\ call[c].pc = "check"
    /\ call' = [call EXCEPT ![c] =
          IF _model = None \/ _utils = None
          THEN [f EXCEPT !.pc = "done", !.ret = "False",
                         !.exit = "unavailable"]
          ELSE [f EXCEPT !.pc = "utils"]]
    /\ UNCHANGED <<_model, _utils, loads, init_ret, init, _state, exam_logs, aux>>

\* line 130: get_speech_timestamps = _utils[0]
GetUtilsFile(c) ==
    LET f == call[c] IN
    /\ OfFile(f)
    /\ f.pc = "utils"
    /\ call' = [call EXCEPT ![c] =
          IF _utils = None
          THEN ExceptFile(f, "utils")
          ELSE [f EXCEPT !.pc = "decode", !.get_speech_timestamps = _utils]]
    /\ UNCHANGED <<_model, _utils, loads, init_ret, init, _state, exam_logs, aux>>

\* lines 133-135: from_file probes the container, the samples are
\* normalised
DecodeFromFile(c) ==
    LET f == call[c] IN
    /\ OfFile(f)
    /\ f.pc = "decode"
    /\ call' = [call EXCEPT ![c] =
          IF ~DecodesProbed(f.arg.payload)
          THEN ExceptFile(f, "decode")
          ELSE [f EXCEPT !.pc = "downmix", !.channels = f.arg.channels,
                         !.samples = "interleaved",
                         !.ran = @ \cup {"decode"}]]
    /\ UNCHANGED <<_model, _utils, loads, init_ret, init, _state, exam_logs, aux>>

\* lines 137-139: if audio.channels == 2, the mean over the two channels
DownmixFile(c) ==
    LET f == call[c] IN
    /\ OfFile(f)
    /\ f.pc = "downmix"
    /\ call' = [call EXCEPT ![c] =
          IF f.channels = 2
          THEN [f EXCEPT !.pc = "resample", !.samples = "mono",
                         !.ran = @ \cup {"downmix"}]
          ELSE [f EXCEPT !.pc = "resample",
                         !.samples = IF f.channels = 1
                                     THEN "mono" ELSE "interleaved"]]
    /\ UNCHANGED <<_model, _utils, loads, init_ret, init, _state, exam_logs, aux>>

\* line 142
ResampleFile(c) ==
    LET f == call[c] IN
    /\ OfFile(f)
    /\ f.pc = "resample"
    /\ call' = [call EXCEPT ![c] =
          IF f.arg.resample = "raise"
          THEN ExceptFile(f, "resample")
          ELSE [f EXCEPT !.pc = "denoise", !.wav = "resampled",
                         !.ran = @ \cup {"resample"}]]
    /\ UNCHANGED <<_model, _utils, loads, init_ret, init, _state, exam_logs, aux>>

\* lines 145-148: try reduce_noise, except: pass
DenoiseFile(c) ==
    LET f == call[c] IN
    /\ OfFile(f)
    /\ f.pc = "denoise"
    /\ call' = [call EXCEPT ![c] =
          IF f.arg.denoise = "raise"
          THEN [f EXCEPT !.pc = "vad", !.ran = @ \cup {"denoise_failed"}]
          ELSE [f EXCEPT !.pc = "vad", !.wav = "denoised",
                         !.ran = @ \cup {"denoise"}]]
    /\ UNCHANGED <<_model, _utils, loads, init_ret, init, _state, exam_logs, aux>>

\* line 151
VadFile(c) ==
    LET f == [call[c] EXCEPT !.vad_wav = call[c].wav, !.vad_model = _model,
                             !.vad_state = _state,
                             !.ran = @ \cup {"vad"}] IN
    /\ OfFile(call[c])
    /\ call[c].pc = "vad"
    /\ call' = [call EXCEPT ![c] =
          IF f.arg.vad = "raise"
          THEN ExceptFile(f, "vad")
          ELSE [f EXCEPT !.pc = "loop",
                         !.speech_segments =
                             VadAnswerFrom(f.arg, f.wav, ResetStates(_state))]]
    /\ _state' = "residual"
    /\ UNCHANGED <<_model, _utils, loads, init_ret, init, exam_logs, aux>>

\* the loop of the debugging function without the duration test of lines
\* 156-157
LoopFileUnfiltered(c) ==
    LET f == call[c] IN
    /\ OfFile(f)
    /\ f.pc = "loop"
    /\ call' = [call EXCEPT ![c] =
          IF f.i > Len(f.speech_segments)
          THEN [f EXCEPT !.pc = "done", !.ret = "False",
                         !.exit = "not_detected"]
          ELSE LET g == [f EXCEPT !.examined = Append(@, f.i),
                                  !.verified = Append(@, f.i)] IN
               IF has_voicing(PyinAnswer(f.arg, f.i))
               THEN [g EXCEPT !.pc = "done", !.ret = "True",
                              !.exit = "detected"]
               ELSE [g EXCEPT !.i = @ + 1]]
    /\ UNCHANGED <<_model, _utils, loads, init_ret, init, _state, exam_logs, aux>>

\* lines 153-162: one turn of the loop, or its end; dur is compared with
\* MIN_SPEECH_DURATION at 156, has_voicing(segment, SR) is called at 159
LoopFile(c) ==
    LET f == call[c] IN
    /\ OfFile(f)
    /\ f.pc = "loop"
    /\ call' = [call EXCEPT ![c] =
          IF f.i > Len(f.speech_segments)
          THEN [f EXCEPT !.pc = "done", !.ret = "False",
                         !.exit = "not_detected"]
          ELSE LET g == [f EXCEPT !.examined = Append(@, f.i)] IN
               IF (g.speech_segments[g.i].end - g.speech_segments[g.i].start)
                      * MinDurDen < MinDurNum * SR
               THEN [g EXCEPT !.i = @ + 1]
               ELSE LET h == [g EXCEPT !.verified = Append(@, g.i)] IN
                    IF has_voicing(PyinAnswer(h.arg, h.i))
                    THEN [h EXCEPT !.pc = "done", !.ret = "True",
                                   !.exit = "detected"]
                    ELSE [h EXCEPT !.i = @ + 1]]
    /\ UNCHANGED <<_model, _utils, loads, init_ret, init, _state, exam_logs, aux>>

----------------------------------------------------------------------------
(* The process used by one thread: one call at a time *)

Idle == \A c \in Calls : call[c].pc = "idle"

\* no request on a questions route has been answered
NoReply == [route |-> "none", request |-> <<>>, status |-> 0, body |-> <<>>]

\* no application of lines 83-88
NoMix == [width |-> 16, channels |-> 1, raw |-> <<>>, out |-> <<>>,
          done |-> FALSE]

\* the speech module after import, no request made
InitSpeech ==
    /\ _model = None
    /\ _utils = None
    /\ loads = 0
    /\ init_ret = "none"
    /\ call = [c \in Calls |-> IdleFrame]
    /\ init = IdleInit
    /\ _state = "none"
    /\ exam_logs = <<>>

\* the questions table empty, no request made
InitRoutes ==
    /\ questions = <<>>
    /\ reply = NoReply
    /\ admins = <<>>
    /\ admin_sessions = <<>>

Init ==
    /\ InitSpeech
    /\ InitRoutes
    /\ probe = NoProbe
    /\ mix = NoMix

\* exam_logs has fewer rows than the bound: a request that may write one
\* is taken
LogRoom == Len(exam_logs) < MaxLogs

Next ==
    \/ Idle /\ InitializeOk
    \/ Idle /\ InitializeFail
    \/ Idle /\ LogRoom /\ \E in \in Inputs : Call(1, in)
    \/ CheckModel(1)
    \/ GetUtils(1)
    \/ Decode(1)
    \/ Downmix(1)
    \/ Resample(1)
    \/ Denoise(1)
    \/ Vad(1)
    \/ Loop(1)
    \/ Respond(1)
    \/ Finish(1)

Spec == Init /\ [][Next]_vars

----------------------------------------------------------------------------
(* The log route beside the detection requests *)

\* reasons a client posts: the one of backend_test.py 203, and the one the
\* detection route writes, which nothing keeps a client from posting
Reasons ==
    {"Suspicious activity detected - multiple browser tabs opened",
     "SPEECH_DETECTED"}

\* lines 267-279: POST /api/exam/logs; the row is built from the request
\* whatever its reason, inserted, and returned with status 200
CreateExamLog(reason) ==
    /\ exam_logs' = Append(exam_logs, [reason |-> reason])
    /\ reply' = [route |-> "log", request |-> <<reason>>, status |-> 200,
                 body |-> <<[reason |-> reason]>>]
    /\ UNCHANGED <<_model, _utils, loads, init_ret, call, init, _state,
                   questions, probe, mix, logins>>

\* clips of the requests made beside the log route: silence, a voiced span,
\* a span below the duration threshold, a stereo clip with a span that is
\* not voiced, a payload that does not decode
LogInputs ==
    {BaseInput,
     [BaseInput EXCEPT !.segments = Spans(<<ThresholdSamples + LongBy>>, 0),
                       !.pyin = <<PyinFlags(Flags(NumFrames, NumFrames))>>],
     [BaseInput EXCEPT !.segments = Spans(<<ThresholdSamples - ShortBy>>, 0),
                       !.pyin = <<PyinFlags(Flags(NumFrames, NumFrames))>>],
     [BaseInput EXCEPT !.channels = 2,
                       !.segments = Spans(<<ThresholdSamples>>, 0),
                       !.pyin = <<PyinFlags(Flags(0, NumFrames))>>],
     [BaseInput EXCEPT !.payload = "garbage"]}

\* a client posts a row at any moment, also while a detection is under way
NextLogs ==
    \/ Idle /\ InitializeOk
    \/ Idle /\ LogRoom /\ \E in \in LogInputs : Call(1, in)
    \/ CheckModel(1)
    \/ GetUtils(1)
    \/ Decode(1)
    \/ Downmix(1)
    \/ Resample(1)
    \/ Denoise(1)
    \/ Vad(1)
    \/ Loop(1)
    \/ Respond(1)
    \/ Finish(1)
    \/ LogRoom /\ \E reason \in Reasons : CreateExamLog(reason)

SpecLogs == Init /\ [][NextLogs]_vars

----------------------------------------------------------------------------
(* Two calls in one process, one after the other *)

\* the audio of the paired calls and what the libraries answer for it: one
\* clip for each way a call can end
PairClips ==
    {[BaseInput EXCEPT !.payload = "garbage"],
     [BaseInput EXCEPT !.resample = "raise"],
     [BaseInput EXCEPT !.vad = "raise"],
     BaseInput,
     [BaseInput EXCEPT !.denoise = "mute",
                       !.segments = Spans(<<ThresholdSamples + LongBy>>, 0),
                       !.pyin = <<PyinFlags(Flags(NumFrames, NumFrames))>>],
     [BaseInput EXCEPT !.denoise = "raise",
                       !.segments = Spans(<<ThresholdSamples>>, 0),
                       !.pyin = <<PyinFlags(Flags(NumFrames, NumFrames))>>],
     [BaseInput EXCEPT !.segments = Spans(<<ThresholdSamples - ShortBy>>, 0),
                       !.pyin = <<PyinFlags(Flags(NumFrames, NumFrames))>>],
     [BaseInput EXCEPT !.segments =
                           Spans(<<ThresholdSamples, ThresholdSamples>>, 0),
                       !.pyin = <<PyinRaise,
                                  PyinFlags(Flags(NumFrames, NumFrames))>>],
     [BaseInput EXCEPT !.channels = 2,
                       !.segments = Spans(<<ThresholdSamples>>, 0),
                       !.pyin = <<PyinFlags(Flags(NumFrames, NumFrames))>>],
     [BaseInput EXCEPT !.channels = 6,
                       !.segments = Spans(<<ThresholdSamples>>, 0),
                       !.pyin = <<PyinFlags(Flags(0, NumFrames))>>]}

\* inputs of the paired calls: every clip handed to either function
PairInputs == {[clip EXCEPT !.fn = fn] : clip \in PairClips,
                                         fn \in {"bytes", "file"}}

\* no call is between its entry and its return
NoneRunning == \A c \in Calls : call[c].pc \in {"idle", "done", "responded"}

\* the process makes one call after the other; the result of the earlier
\* call is still held by its caller while the later call runs. A call of
\* detect_speech_from_bytes takes the steps of lines 47-116, a call of
\* detect_speech_from_file those of lines 118-166.
NextTwice ==
    \/ NoneRunning /\ InitializeOk
    \/ NoneRunning /\ InitializeFail
    \/ \E c \in Calls :
          \/ NoneRunning /\ LogRoom /\ \E in \in PairInputs : Call(c, in)
          \/ ~OfFile(call[c]) /\ CheckModel(c)
          \/ ~OfFile(call[c]) /\ GetUtils(c)
          \/ ~OfFile(call[c]) /\ Decode(c)
          \/ ~OfFile(call[c]) /\ Downmix(c)
          \/ ~OfFile(call[c]) /\ Resample(c)
          \/ ~OfFile(call[c]) /\ Denoise(c)
          \/ ~OfFile(call[c]) /\ Vad(c)
          \/ ~OfFile(call[c]) /\ Loop(c)
          \/ CheckModelFile(c)
          \/ GetUtilsFile(c)
          \/ DecodeFromFile(c)
          \/ DownmixFile(c)
          \/ ResampleFile(c)
          \/ DenoiseFile(c)
          \/ VadFile(c)
          \/ LoopFile(c)
          \/ Respond(c)
          \/ Finish(c)

SpecTwice == Init /\ [][NextTwice]_vars

----------------------------------------------------------------------------
(* Calls in several threads, initialize_speech_detection in another *)

\* inputs of the concurrent calls: a file without a span, a file with a
\* voiced span. From the decoded audio on, lines 133-162 of
\* detect_speech_from_file are lines 83-112 of detect_speech_from_bytes.
ConcInputs ==
    {[BaseInput EXCEPT !.fn = "file"],
     [BaseInput EXCEPT !.fn = "file",
                       !.segments = Spans(<<ThresholdSamples + LongBy>>, 0),
                       !.pyin = <<PyinFlags(Flags(NumFrames, NumFrames))>>]}

\* every thread takes its next step whenever it is scheduled; nothing in
\* the module orders a step of one thread against a step of another. The
\* callers are the threads themselves: a result is taken and the next call
\* made, no request is answered.
NextConc ==
    \/ InitStart
    \/ InitLoaded
    \/ InitLoadRaises
    \/ InitStoreModel
    \/ InitStoreUtils
    \/ InitReturn
    \/ \E c \in Calls :
          \/ \E in \in ConcInputs : Call(c, in)
          \/ CheckModel(c)
          \/ GetUtils(c)
          \/ Decode(c)
          \/ Downmix(c)
          \/ Resample(c)
          \/ Denoise(c)
          \/ VadEnter(c)
          \/ VadLeave(c)
          \/ Loop(c)
          \/ Finish(c)

SpecConc == Init /\ [][NextConc]_vars

----------------------------------------------------------------------------
(* The questions routes of server.py (lines 206-250) *)

\* line 241: the size of the sample of an exam
ExamSize == 50

\* JSON null in a column
Null == "null"

\* the fields of class Question (lines 49-57)
Fields == {"id", "question_text", "option_a", "option_b", "option_c",
           "option_d", "correct_answer", "created_at"}

\* the n-th identifier handed out (line 50: a fresh uuid4)
IdOf(n) == <<"q1", "q2", "q3", "q4", "q5">>[n]

\* q.pop(key, None) returning nothing removed
PopNothing(q, key) == q

\* lines 246-247: q.pop(key, None), the dict without the key, whether or
\* not it had it
Pop(q, key) == [k \in DOMAIN q \ {key} |-> q[k]]

\* lines 209-211: the row create_question inserts, every field set
FullRow(n) ==
    [id |-> IdOf(n), question_text |-> "text", option_a |-> "a",
     option_b |-> "b", option_c |-> "c", option_d |-> "d",
     correct_answer |-> "A", created_at |-> "2024-01-01T00:00:00Z"]

\* the rows the table can hold under identifier n: the table is written by
\* others too, so a row may lack a column or hold null in it
RowsOf(n) ==
    {FullRow(n), Pop(FullRow(n), "correct_answer"),
     [FullRow(n) EXCEPT !.correct_answer = Null],
     Pop(FullRow(n), "created_at")}

\* the tables of up to MaxRows rows
Tables ==
    UNION {{t \in [1..n -> UNION {RowsOf(i) : i \in 1..n}] :
               \A i \in 1..n : t[i] \in RowsOf(i)} : n \in 0..MaxRows}

\* lines 224-225: item['created_at'] is read and parsed and Question(**item)
\* validates; every field but id and created_at is required and a str
Parses(item) ==
    /\ "created_at" \in DOMAIN item
    /\ item["created_at"] # Null
    /\ \A k \in Fields \ {"id", "created_at"} :
          k \in DOMAIN item /\ item[k] # Null

\* line 225: Question(**item) as the response model serialises it
Question(item) == [k \in Fields |-> item[k]]

\* random.sample(questions, k): k different rows in any order
Sample(rows, k) ==
    {[j \in 1..k |-> rows[order[j]]] :
        order \in {o \in [1..k -> 1..Len(rows)] :
                     \A a \in 1..k : \A b \in 1..k : o[a] = o[b] => a = b}}

Min(a, b) == IF a < b THEN a ELSE b

\* the identifiers of the rows of the table
IdsIn(rows) == {rows[i]["id"] : i \in 1..Len(rows)}

\* line 50: a uuid4 no row of the table has, the first such of the model
FreshId(rows) ==
    CHOOSE n \in 1..(MaxRows + 1) :
        /\ IdOf(n) \notin IdsIn(rows)
        /\ \A m \in 1..(n - 1) : IdOf(m) \in IdsIn(rows)

\* lines 206-217: POST /api/admin/questions
CreateQuestion ==
    /\ Len(questions) < MaxRows
    /\ questions' = Append(questions, FullRow(FreshId(questions)))
    /\ reply' = [route |-> "create", request |-> <<>>, status |-> 200,
                  body |-> <<FullRow(FreshId(questions))>>]
    /\ UNCHANGED <<_model, _utils, loads, init_ret, call, init, _state, exam_logs,
                   probe, mix, logins>>

\* lines 219-230: GET /api/admin/questions
GetAllQuestions ==
    /\ reply' = IF \A i \in 1..Len(questions) : Parses(questions[i])
                THEN [route |-> "admin", request |-> <<>>, status |-> 200,
                      body |-> [i \in 1..Len(questions) |->
                                   Question(questions[i])]]
                ELSE [route |-> "admin", request |-> <<>>, status |-> 500,
                      body |-> <<[detail |-> "Failed to get questions"]>>]
    /\ UNCHANGED <<_model, _utils, loads, init_ret, call, init, _state, exam_logs,
                   questions, probe, mix, logins>>

\* lines 232-250: GET /api/questions
GetExamQuestions ==
    /\ \E sampled_questions \in
              Sample(questions, Min(ExamSize, Len(questions))) :
          reply' = [route |-> "exam", request |-> <<>>, status |-> 200,
                    body |-> [j \in 1..Len(sampled_questions) |->
                                 Pop(sampled_questions[j], "correct_answer")]]
    /\ UNCHANGED <<_model, _utils, loads, init_ret, call, init, _state, exam_logs,
                   questions, probe, mix, logins>>

\* the rows of the table whose id is not question_id, in their order
RECURSIVE Without(_, _)
Without(rows, question_id) ==
    IF rows = <<>> THEN <<>>
    ELSE IF Head(rows)["id"] = question_id
    THEN Without(Tail(rows), question_id)
    ELSE <<Head(rows)>> \o Without(Tail(rows), question_id)

\* the delete with its 404 caught by the handler of lines 263-265
DeleteQuestionCatchAll(question_id) ==
    /\ questions' = Without(questions, question_id)
    /\ reply' = IF questions' = questions
                THEN [route |-> "delete", request |-> <<question_id>>,
                      status |-> 500,
                      body |-> <<[detail |-> "Failed to delete question"]>>]
                ELSE [route |-> "delete", request |-> <<question_id>>,
                      status |-> 200,
                      body |-> <<[message |->
                                     "Question deleted successfully"]>>]
    /\ UNCHANGED <<_model, _utils, loads, init_ret, call, init, _state, exam_logs,
                   probe, mix, logins>>

\* lines 252-265: DELETE /api/admin/questions/{question_id}; result.data
\* holds the rows deleted, and the HTTPException of line 258 passes the
\* handlers unchanged (lines 261-262)
DeleteQuestion(question_id) ==
    /\ questions' = Without(questions, question_id)
    /\ reply' = IF questions' = questions
                THEN [route |-> "delete", request |-> <<question_id>>,
                      status |-> 404,
                      body |-> <<[detail |-> "Question not found"]>>]
                ELSE [route |-> "delete", request |-> <<question_id>>,
                      status |-> 200,
                      body |-> <<[message |->
                                     "Question deleted successfully"]>>]
    /\ UNCHANGED <<_model, _utils, loads, init_ret, call, init, _state, exam_logs,
                   probe, mix, logins>>

\* the table as any request can find it
InitQuestions ==
    /\ InitSpeech
    /\ questions \in Tables
    /\ reply = NoReply
    /\ admins = <<>>
    /\ admin_sessions = <<>>
    /\ probe = NoProbe
    /\ mix = NoMix

NextQuestions ==
    \/ CreateQuestion
    \/ GetAllQuestions
    \/ GetExamQuestions
    \/ \E n \in 1..(MaxRows + 1) : DeleteQuestion(IdOf(n))

SpecQuestions == InitQuestions /\ [][NextQuestions]_vars

----------------------------------------------------------------------------
(* The login route of server.py (lines 122-126, 178-203) *)

\* the passwords tried and stored: that of the default admin (line 137), one
\* that differs from it in a character, the empty one
Passwords == {"admin123", "admin124", ""}

\* lines 122-123: hashlib.sha256(password.encode()).hexdigest(), the digests
\* of the passwords above
hash_password(password) ==
    CASE password = "admin123" ->
           "240be518fabd2724ddb6f04eeb1da5967448d7e831c08c8fa822809f74c720a9"
      [] password = "admin124" ->
           "e0ac50dd7d0230545cdd32890fd0c4c82e4b2b47094ed5c2590890114a9b40ff"
      [] password = "" ->
           "e3b0c44298fc1c149afbf4c8996fb92427ae41e4649b934ca495991b7852b855"

\* the password compared with the stored text as it is
verify_passwordPlain(password, hashed) == password = hashed

\* lines 125-126
verify_password(password, hashed) == hash_password(password) = hashed

\* the usernames of the table, in the order of its rows
UserList == <<"admin", "root">>

\* what column password_hash can hold: the digest of a password, or a
\* password that was stored unhashed
StoredHashes == {hash_password(p) : p \in Passwords} \cup {"admin123"}

\* column id of the row of user u
AdminId(u) == IF u = "admin" THEN "a1" ELSE "a2"

\* the table admins with one row for each user h is defined on, username
\* unique as init_default_admin (lines 129-143) keeps it for its row
RECURSIVE AdminRows(_, _)
AdminRows(users, h) ==
    IF users = <<>> THEN <<>>
    ELSE (IF Head(users) \in DOMAIN h
          THEN <<[id |-> AdminId(Head(users)), username |-> Head(users),
                  password_hash |-> h[Head(users)]]>>
          ELSE <<>>) \o AdminRows(Tail(users), h)

\* line 187: the n-th uuid4 handed out as a token
TokenOf(n) == <<"t1", "t2", "t3", "t4">>[n]

\* line 181: the rows of admins with the username
ByUsername(rows, username) ==
    LET Is(row) == row.username = username IN SelectSeq(rows, Is)

\* lines 178-203: POST /api/admin/login
AdminLogin(username, password) ==
    LET data == ByUsername(admins, username) IN
    /\ Len(admin_sessions) < MaxSessions
    /\ IF data = <<>> \/ ~verify_password(password, data[1].password_hash)
       THEN /\ reply' = [route |-> "login",
                         request |-> <<username, password>>, status |-> 401,
                         body |-> <<[detail |-> "Invalid credentials"]>>]
            /\ UNCHANGED admin_sessions
       ELSE LET token == TokenOf(Len(admin_sessions) + 1) IN
            /\ admin_sessions' =
                  Append(admin_sessions,
                         [token |-> token, admin_id |-> data[1].id])
            /\ reply' = [route |-> "login",
                         request |-> <<username, password>>, status |-> 200,
                         body |-> <<[token |-> token,
                                     message |-> "Login successful"]>>]
    /\ UNCHANGED <<_model, _utils, loads, init_ret, call, init, _state, exam_logs,
                   questions, probe, mix, admins>>

\* any table admins, no session
InitLogin ==
    /\ InitSpeech
    /\ questions = <<>>
    /\ reply = NoReply
    /\ probe = NoProbe
    /\ mix = NoMix
    /\ \E users \in SUBSET Range(UserList) :
          \E h \in [users -> StoredHashes] : admins = AdminRows(UserList, h)
    /\ admin_sessions = <<>>

NextLogin ==
    \E username \in Range(UserList) \cup {"nobody"}, password \in Passwords :
        AdminLogin(username, password)

SpecLogin == InitLogin /\ [][NextLogin]_vars

----------------------------------------------------------------------------
(* Lines 82-87 (133-139) applied to the samples of one decoded clip *)

\* the sample widths in bits for which pydub's array_type is 'b' and 'h'.
\* (For 32 bits float32 rounds 2147483647 to 2^31, another arithmetic.)
Widths == {8, 16}

\* the channel counts followed: mono, stereo, three channels
ChannelCounts == {1, 2, 3}

\* line 83: np.iinfo(audio.array_type).max
IinfoMax(width) == 2 ^ (width - 1) - 1

\* np.iinfo(audio.array_type).min, the most negative sample
IinfoMin(width) == 0 - 2 ^ (width - 1)

\* the sample values followed: the two ends of the type and zero
SampleValues(width) == {IinfoMin(width), 0, IinfoMax(width)}

\* lines 82-83: every integer sample divided by the maximum of the type.
\* A sample is kept as the fraction num / (over * IinfoMax(width)); float32
\* holds -(2^(w-1)) / (2^(w-1) - 1) as a number below -1 for both widths.
Normalize(raw, width) == [i \in 1..Len(raw) |-> [num |-> raw[i], over |-> 1]]

\* line 87: the mean of the two samples of a frame
Mean2(a, b) == [num |-> a.num + b.num, over |-> a.over + b.over]

\* lines 85-87: reshape((-1, 2)) and mean(axis=1) when there are exactly
\* two channels, the samples as they are otherwise
ToMono(samples, channels) ==
    IF channels = 2
    THEN [j \in 1..(Len(samples) \div 2) |->
             Mean2(samples[2 * j - 1], samples[2 * j])]
    ELSE samples

\* a decoded clip of width w with ch channels and interleaved samples r
Clip(w, ch, r) ==
    [width |-> w, channels |-> ch, raw |-> r, out |-> <<>>, done |-> FALSE]

\* any clip of up to MaxFrames frames
InitSamples ==
    /\ InitSpeech
    /\ InitRoutes
    /\ probe = NoProbe
    /\ \E w \in Widths, ch \in ChannelCounts, n \in 0..MaxFrames :
          \E r \in [1..(ch * n) -> SampleValues(w)] : mix = Clip(w, ch, r)

\* lines 82-87: what is handed to librosa.resample
ApplySamples ==
    /\ ~mix.done
    /\ mix' = [mix EXCEPT
                 !.out = ToMono(Normalize(mix.raw, mix.width), mix.channels),
                 !.done = TRUE]
    /\ UNCHANGED <<_model, _utils, loads, init_ret, call, init, _state, exam_logs,
                   questions, reply, probe, logins>>

NextSamples == ApplySamples

SpecSamples == InitSamples /\ [][NextSamples]_vars

----------------------------------------------------------------------------
(* has_voicing applied to one answer of pyin *)

\* the answers tried: a failure, no array, every array of up to NumFrames
\* frames whose voiced frames come first, every array of up to three frames
VoicingProbes ==
    {PyinRaise, PyinNone}
    \cup {PyinFlags(Flags(k, n)) : k \in 0..NumFrames, n \in 0..NumFrames}
    \cup {PyinFlags(q) : q \in SeqsUpTo(BOOLEAN, 3)}

InitVoicing ==
    /\ InitSpeech
    /\ InitRoutes
    /\ probe \in {[pyin |-> p, out |-> "none"] : p \in VoicingProbes}
    /\ mix = NoMix

ApplyVoicing ==
    /\ probe.out = "none"
    /\ probe' = [probe EXCEPT
                   !.out = IF has_voicing(probe.pyin) THEN "True" ELSE "False"]
    /\ UNCHANGED <<_model, _utils, loads, init_ret, call, init, _state, exam_logs,
                   questions, reply, mix, logins>>

NextVoicing == ApplyVoicing

SpecVoicing == InitVoicing /\ [][NextVoicing]_vars

----------------------------------------------------------------------------
(* Vocabulary of the properties *)

\* the call has returned to its caller (and may have been answered)
Ended(f) == f.pc \in {"done", "responded"}

\* the call found the model loaded at lines 60 (125)
SawModel(f) == f.seen[1] # None /\ f.seen[2] # None


\* the number of samples of a span
Samples(seg) == seg.end - seg.start

----------------------------------------------------------------------------
(* Properties of the detection calls *)

\* C1: while no load of the model has succeeded, a call of either function
\* ends in the failure ModelUnavailable and does not return False.
C1_UnavailableIsFailure ==
    \A c \in Calls :
        Ended(call[c]) /\ loads = 0
            => call[c].exc = "ModelUnavailable" /\ call[c].ret # "False"

\* C2: with the model loaded, a payload that is empty, truncated or no audio
\* ends the call in the failure DecodeError, which the service answers with
\* status 500 and the detail "Speech detection failed"; the call does not
\* return False.
C2_UndecodableIsDecodeError ==
    \A c \in Calls :
        LET f == call[c] IN
        /\ Ended(f)
        /\ SawModel(f)
        /\ f.arg.fn = "bytes"
        /\ ~f.arg.mime_none
        /\ f.arg.payload \notin Containers
        => /\ f.exc = "DecodeError"
           /\ f.ret # "False"
           /\ f.pc = "responded" =>
                /\ f.response.status = 500
                /\ f.response.detail = "Speech detection failed"

\* C3: an exception of resampling or of the segmenter reaches the caller as
\* a failure; it is not turned into the return value False.
C3_StageFailureSurfaces ==
    \A c \in Calls :
        LET f == call[c] IN
        Ended(f) /\ f.caught \in {"resample", "vad"}
            => f.exc # "none" /\ f.ret # "False"

\* C4: when decoding and the segmenter succeed, the call returns True exactly
\* when some span the segmenter returned lasts at least MIN_SPEECH_DURATION
\* and is accepted by has_voicing, and returns False otherwise (also when no
\* span was returned).
C4_TrueIffSomeSegmentAdmitted ==
    \A c \in Calls :
        LET f == call[c]
            segs == f.speech_segments
            admitted == \E k \in 1..Len(segs) :
                           /\ Samples(segs[k]) * MinDurDen >= MinDurNum * SR
                           /\ has_voicing(PyinAnswer(f.arg, k))
        IN  Ended(f) /\ f.arg.vad = "ok" /\ "vad" \in f.ran
                => /\ f.exc = "none"
                   /\ f.ret = (IF admitted THEN "True" ELSE "False")

\* a call returned True for a span of exactly the threshold duration after
\* it rejected the span before it
C4_Witness ==
    /\ call[1].pc = "done"
    /\ call[1].ret = "True"
    /\ call[1].verified = <<2>>
    /\ call[1].examined = <<1, 2>>
    /\ Samples(call[1].speech_segments[2]) = ThresholdSamples

\* C5: a span of fewer than 4800 samples is never handed to has_voicing and
\* never makes the call return True, whatever pyin says of it; a span of
\* exactly 4800 samples passes the duration filter.
C5_DurationFilter ==
    \A c \in Calls :
        LET f == call[c] IN
        /\ \A k \in Range(f.verified) :
              Samples(f.speech_segments[k]) >= ThresholdSamples
        /\ f.ret = "True" =>
              /\ f.verified # <<>>
              /\ Samples(f.speech_segments[f.verified[Len(f.verified)]])
                    >= ThresholdSamples
        /\ \A k \in Range(f.examined) :
              Samples(f.speech_segments[k]) = ThresholdSamples
                 => k \in Range(f.verified)

\* a span one sample short whose frames are voiced was passed over and the
\* call returned False; the function is detect_speech_from_file
C5_Witness ==
    /\ call[1].pc = "done"
    /\ call[1].arg.fn = "file"
    /\ call[1].ret = "False"
    /\ call[1].examined = <<1>>
    /\ call[1].verified = <<>>
    /\ Samples(call[1].speech_segments[1]) = ThresholdSamples - ShortBy
    /\ has_voicing(PyinAnswer(call[1].arg, 1))

\* C7: when pyin raises for a span, has_voicing answers False for it, the
\* exception does not reach the loop, and the loop goes on to the spans
\* that follow.
C7_PyinFailureFailsClosed ==
    \A c \in Calls :
        LET f == call[c] IN
        \A n \in 1..Len(f.verified) :
            LET k == f.verified[n] IN
            PyinAnswer(f.arg, k).kind = "raise"
                => /\ ~has_voicing(PyinAnswer(f.arg, k))
                   /\ f.caught = "none"
                   /\ f.exc = "none"
                   /\ f.ret = "True" => n < Len(f.verified)
                   /\ Ended(f) /\ k < Len(f.speech_segments)
                         => k + 1 \in Range(f.examined)

\* pyin raised for the first span and the second span was then admitted
C7_Witness ==
    /\ call[1].pc = "done"
    /\ call[1].verified = <<1, 2>>
    /\ PyinAnswer(call[1].arg, 1).kind = "raise"
    /\ call[1].ret = "True"

\* C8: when reduce_noise raises, the failure stays inside the stage, the
\* segmenter is given the resampled waveform, and the call ends as it does
\* on that waveform; noise suppression alone never makes the call fail.
C8_DenoiseFailureSkipsStage ==
    \A c \in Calls :
        LET f == call[c]
            segs == VadAnswer(f.arg, "resampled")
            admitted == \E k \in 1..Len(segs) :
                           ~TooShort(segs[k]) /\ has_voicing(PyinAnswer(f.arg, k))
        IN  Ended(f) /\ f.arg.denoise = "raise" /\ "resample" \in f.ran
                => /\ f.caught # "denoise"
                   /\ f.wav = "resampled"
                   /\ f.vad_wav = "resampled"
                   /\ f.arg.vad = "ok" =>
                         /\ f.speech_segments = segs
                         /\ f.ret = (IF admitted THEN "True" ELSE "False")

\* reduce_noise raised and the call went on to detect speech
C8_Witness ==
    /\ call[1].pc = "done"
    /\ call[1].arg.denoise = "raise"
    /\ "denoise_failed" \in call[1].ran
    /\ call[1].vad_wav = "resampled"
    /\ call[1].ret = "True"

\* C9: a call ends in one of Detected, NotDetected, DecodeError and
\* ModelUnavailable, and its caller can tell them apart: a returned False
\* means NotDetected, the end of the loop with no span admitted.
C9_OutcomesDistinguishable ==
    \A c \in Calls :
        LET f == call[c] IN
        Ended(f) =>
            /\ f.ret = "True" => f.exit = "detected"
            /\ f.ret = "False" => f.exit = "not_detected"
            /\ f.exit \in {"unavailable", "handler"} => f.exc # "none"

----------------------------------------------------------------------------
(* Properties of has_voicing *)

\* the number of frames flagged voiced
Voiced(voiced_flag) ==
    Cardinality({k \in 1..Len(voiced_flag) : voiced_flag[k]})

\* C6: has_voicing admits only an array whose fraction of voiced frames is
\* above 0.15 (3/20); a fraction of exactly 0.15 or less, a missing array and
\* an empty array are not admitted.
C6_AdmitsOnlyAboveThreshold ==
    LET p == probe.pyin IN
    probe.out # "none" =>
        /\ probe.out = "True" =>
              /\ p.kind = "array"
              /\ Len(p.voiced_flag) > 0
              /\ 20 * Voiced(p.voiced_flag) > 3 * Len(p.voiced_flag)
        /\ p.kind = "None" => probe.out = "False"
        /\ p.kind = "array" /\ p.voiced_flag = <<>> => probe.out = "False"
        /\ /\ p.kind = "array"
           /\ 20 * Voiced(p.voiced_flag) <= 3 * Len(p.voiced_flag)
           => probe.out = "False"

\* an array with 3 of 20 frames voiced, exactly 0.15, was not admitted
C6_Witness ==
    /\ probe.out = "False"
    /\ probe.pyin.kind = "array"
    /\ Len(probe.pyin.voiced_flag) = 20
    /\ Voiced(probe.pyin.voiced_flag) = 3


----------------------------------------------------------------------------
(* Initialisation and concurrent calls *)

\* some call of initialize_speech_detection has returned True: a pair is
\* bound, and it is not the pair of a call that has yet to return
InitCompleted ==
    /\ _model # None
    /\ _utils # None
    /\ (init.pc = "return" => _utils > 1)

\* C11: the model is loaded once, and no call runs the segmenter or a later
\* stage unless initialize_speech_detection has returned True before.
C11_InitializedOnceBarrier ==
    /\ loads <= 1
    /\ \A c \in Calls : "vad" \in call[c].ran => InitCompleted

\* C12: when the last initialize_speech_detection returned False, _model and
\* _utils are both unset and every call that got past its entry has left
\* through the return for an unavailable model.
C12_FailureLeavesUnavailable ==
    (init_ret = "False" /\ init.pc = "idle") =>
        /\ _model = None
        /\ _utils = None
        /\ \A c \in Calls :
              call[c].pc \notin {"idle", "check"}
                  => call[c].exit = "unavailable"

\* C13: no two calls are inside the segmenter with the same model handle at
\* the same time.
C13_InferenceSerialized ==
    \A c \in Calls : \A d \in Calls \ {c} :
        ~ /\ call[c].pc = "inference"
          /\ call[d].pc = "inference"
          /\ call[c].vad_model = call[d].vad_model

----------------------------------------------------------------------------
(* The violation log *)

\* the rows added to exam_logs since the call of frame f was made
RowsSince(f) ==
    {exam_logs[k] : k \in (f.logs_before + 1)..Len(exam_logs)}

\* C14: a request answered with speech_detected true has added a row with
\* the reason SPEECH_DETECTED to exam_logs: the answering step appends it,
\* and it is among the rows written since the call was made. No step of the
\* detection function changes exam_logs; the rows other clients post while
\* it runs come from the log route.
C14_DetectionIsLogged ==
    /\ [](\A c \in Calls :
             (call[c].pc = "responded"
              /\ call[c].response.speech_detected = "True")
                 => \E row \in RowsSince(call[c]) :
                        row.reason = "SPEECH_DETECTED")
    /\ [][\A c \in Calls :
             /\ (call'[c].pc = "responded" /\ call[c].pc # "responded"
                 /\ call'[c].response.speech_detected = "True")
                    => /\ Len(exam_logs') = Len(exam_logs) + 1
                       /\ exam_logs'[Len(exam_logs')].reason
                              = "SPEECH_DETECTED"
             /\ (call'[c] # call[c] /\ call'[c].pc # "responded")
                    => exam_logs' = exam_logs]_vars

\* a request on a voiced clip has been answered with speech_detected true,
\* its row written after the row a client posted while the detection ran
C14_Witness ==
    \E c \in Calls :
        /\ call[c].pc = "responded"
        /\ call[c].response.speech_detected = "True"
        /\ call[c].exit = "detected"
        /\ Len(exam_logs) = call[c].logs_before + 2
        /\ exam_logs[Len(exam_logs) - 1].reason # "SPEECH_DETECTED"
        /\ exam_logs[Len(exam_logs)].reason = "SPEECH_DETECTED"

----------------------------------------------------------------------------
(* The questions routes *)

\* C15: no question in an answer of GET /api/questions has the field
\* correct_answer, whatever the table holds, and every question in an answer
\* of GET /api/admin/questions has it; an answer 500 returns no question.
C15_AnswerKeyOnlyForAdmin ==
    /\ (reply.route = "exam" /\ reply.status = 200) =>
          \A j \in 1..Len(reply.body) :
              "correct_answer" \notin DOMAIN reply.body[j]
    /\ (reply.route = "admin" /\ reply.status = 200) =>
          \A j \in 1..Len(reply.body) :
              /\ "correct_answer" \in DOMAIN reply.body[j]
              /\ reply.body[j]["correct_answer"] # Null

\* an exam was served from a table in which every row has its answer key
C15_Witness ==
    /\ reply.route = "exam"
    /\ Len(questions) > 1
    /\ Len(reply.body) = Len(questions)
    /\ \A i \in 1..Len(questions) : "correct_answer" \in DOMAIN questions[i]

----------------------------------------------------------------------------
(* Silence, the format hint, the time a call takes *)

\* pyin found no voiced frame in the slice
Unvoiced(pyin) ==
    /\ pyin.kind = "array"
    /\ \A k \in 1..Len(pyin.voiced_flag) : ~pyin.voiced_flag[k]

\* the segmenter answered for the clip of frame f, with no span or only
\* spans in which pyin finds no voiced frame
Silence(f) ==
    /\ "vad" \in f.ran
    /\ f.arg.vad = "ok"
    /\ \A k \in 1..Len(f.speech_segments) : Unvoiced(PyinAnswer(f.arg, k))

\* C16: a call on a decodable clip of silence, one for which the segmenter
\* reports no span or only spans without a voiced frame, returns False
\* through the ordinary return, not through the error handler, and its
\* request is answered 200 with speech_detected false.
C16_SilenceIsNotSpeech ==
    \A c \in Calls :
        LET f == call[c] IN
        (Ended(f) /\ Silence(f)) =>
            /\ f.ret = "False"
            /\ f.exit = "not_detected"
            /\ f.caught = "none"
            /\ f.pc = "responded" =>
                  /\ f.response.status = 200
                  /\ f.response.speech_detected = "False"

\* a request whose clip has one span long enough, in which pyin finds no
\* voiced frame, has been answered
C16_Witness ==
    \E c \in Calls :
        LET f == call[c] IN
        /\ f.pc = "responded"
        /\ Silence(f)
        /\ Len(f.speech_segments) = 1
        /\ f.verified = <<1>>
        /\ PyinAnswer(f.arg, 1) = PyinFlags(Flags(0, NumFrames))
        /\ f.response.speech_detected = "False"

\* the format the hint of input in stands for: the first of webm, wav, mp3
\* that its lower-cased text contains, webm when there is no hint or none
\* of them is in it
HintFormat(in) ==
    IF in.mime_none THEN "webm"
    ELSE LET hint == Lower(in.mime_type) IN
         IF Contains(StrWebm, hint) THEN "webm"
         ELSE IF Contains(StrWav, hint) THEN "wav"
         ELSE IF Contains(StrMp3, hint) THEN "mp3"
         ELSE "webm"

\* C17: a call of detect_speech_from_bytes that has got as far as the hint
\* hands the decoder the format the hint stands for, webm when the hint is
\* absent or names no known format, and the hint never ends the call.
C17_FormatFromHint ==
    \A c \in Calls :
        LET f == call[c] IN
        (/\ f.arg.fn = "bytes"
         /\ f.pc \notin {"idle", "check", "utils", "decode"}
         /\ f.exit # "unavailable"
         /\ f.caught # "utils") =>
            /\ f.format = HintFormat(f.arg)
            /\ f.caught # "mime"

\* the library calls the call of frame f has made, each taking its time:
\* from_file and resample whether they returned or raised, reduce_noise,
\* the segmenter, and pyin once for every slice that passed the duration
\* test; the channel mean and a span skipped at lines 105-106 call nothing
Elapsed(f) ==
    (IF "decode" \in f.ran \/ f.caught = "decode" THEN 1 ELSE 0)
    + (IF "resample" \in f.ran \/ f.caught = "resample" THEN 1 ELSE 0)
    + (IF f.ran \cap {"denoise", "denoise_failed"} # {} THEN 1 ELSE 0)
    + (IF "vad" \in f.ran THEN 1 ELSE 0)
    + Len(f.verified)

\* the time a call is allowed, in the same unit
Budget == 4

\* C20: a call that took longer than the budget ends in the failure
\* TimeoutExceeded and is not reported as False.
C20_OverrunIsTimeout ==
    \A c \in Calls :
        LET f == call[c] IN
        (Ended(f) /\ Elapsed(f) > Budget) =>
            /\ f.exc = "TimeoutExceeded"
            /\ f.ret # "False"

----------------------------------------------------------------------------
(* The samples handed to resampling *)

\* the sum of the channel samples of frame j of clip m
RECURSIVE FrameSum(_, _, _)
FrameSum(m, j, k) ==
    IF k = 0 THEN 0
    ELSE m.raw[(j - 1) * m.channels + k] + FrameSum(m, j, k - 1)

\* C18: for every channel count the samples handed to resampling are one
\* per frame, each the arithmetic mean of the channel samples of its frame.
C18_MonoByMean ==
    mix.done =>
        /\ Len(mix.out) * mix.channels = Len(mix.raw)
        /\ \A j \in 1..Len(mix.out) :
              mix.out[j].num * mix.channels
                  = FrameSum(mix, j, mix.channels) * mix.out[j].over

\* C19: every sample handed to resampling lies in [-1, 1], whatever the
\* integer samples were, the most negative value of the type included.
C19_SamplesInUnitRange ==
    mix.done =>
        \A j \in 1..Len(mix.out) :
            LET x == mix.out[j] IN
            /\ 0 - x.over * IinfoMax(mix.width) <= x.num
            /\ x.num <= x.over * IinfoMax(mix.width)

----------------------------------------------------------------------------
(* The order of the loop, a failed decode *)

\* the k-th span of the call of frame f is long enough and voiced
Admits(f, k) ==
    /\ Samples(f.speech_segments[k]) * MinDurDen >= MinDurNum * SR
    /\ has_voicing(PyinAnswer(f.arg, k))

\* C21: the spans are examined in the order the segmenter returned them,
\* which is ascending in time, none is passed over, and no span after the
\* first admitted one is examined or verified: the call has returned True.
C21_InOrderShortCircuit ==
    \A c \in Calls :
        LET f == call[c] IN
        /\ \A k \in 1..Len(f.examined) : f.examined[k] = k
        /\ \A k \in 2..Len(f.examined) :
              f.speech_segments[k - 1].start < f.speech_segments[k].start
        /\ \A k \in Range(f.verified) : k \in Range(f.examined)
        /\ \A k \in Range(f.examined) : \A j \in 1..(k - 1) : ~Admits(f, j)
        /\ (\E k \in Range(f.examined) : Admits(f, k)) =>
              /\ Ended(f)
              /\ f.ret = "True"
              /\ f.exit = "detected"

\* a call returned True on the first of two spans, both long and voiced,
\* and the second was neither measured nor verified
C21_Witness ==
    \E c \in Calls :
        LET f == call[c] IN
        /\ Ended(f)
        /\ f.exit = "detected"
        /\ Len(f.speech_segments) = 2
        /\ Admits(f, 1)
        /\ Admits(f, 2)
        /\ f.examined = <<1>>
        /\ f.verified = <<1>>

\* the call of frame f has come to its decode and the payload does not
\* decode: not as the format of the hint, or for a file not as any container
DecodeFails(f) ==
    /\ f.pc \notin {"idle", "check", "utils", "decode"}
    /\ f.exit # "unavailable"
    /\ f.caught \notin {"utils", "mime"}
    /\ IF f.arg.fn = "bytes"
       THEN ~DecodesAs(f.arg.payload, HintFormat(f.arg))
       ELSE ~DecodesProbed(f.arg.payload)

\* C22: when the decode fails the call ends there: no downmix, resampling,
\* noise reduction, segmenter or has_voicing runs, and there are no samples
\* and no waveform.
C22_DecodeFailureStopsCall ==
    \A c \in Calls :
        LET f == call[c] IN
        DecodeFails(f) =>
            /\ Ended(f)
            /\ f.caught = "decode"
            /\ f.ran = {}
            /\ f.examined = <<>>
            /\ f.verified = <<>>
            /\ f.samples = "none"
            /\ f.wav = "none"
            /\ f.vad_wav = "none"
            /\ f.speech_segments = <<>>

\* a call of detect_speech_from_bytes on a wav file cut short has ended
C22_Witness ==
    \E c \in Calls :
        LET f == call[c] IN
        /\ Ended(f)
        /\ DecodeFails(f)
        /\ f.arg.fn = "bytes"
        /\ f.arg.payload = "truncated"
        /\ f.format = "wav"

----------------------------------------------------------------------------
(* The globals under the calls *)

\* C23: no step of a detection call changes _model or _utils, and no call
\* runs its inference on state that another call is changing through them.
C23_CallsLeaveModelAlone ==
    [][/\ call' # call => UNCHANGED <<_model, _utils>>
       /\ \A c \in Calls : ~call'[c].raced]_vars

----------------------------------------------------------------------------
(* Deleting a question *)

\* C24: a DELETE for an id the table holds removes the row of that id and
\* no other and answers 200 with the message Question deleted successfully;
\* for an id it does not hold it answers 404 and leaves the table as it is.
C24_DeleteRemovesOrNotFound ==
    [][(reply'.route = "delete" /\ <<questions, reply>>' # <<questions, reply>>)
        => LET id == reply'.request[1] IN
           IF id \in IdsIn(questions)
           THEN /\ reply'.status = 200
                /\ reply'.body =
                      <<[message |-> "Question deleted successfully"]>>
                /\ id \notin IdsIn(questions')
                /\ IdsIn(questions') = IdsIn(questions) \ {id}
                /\ Len(questions') = Len(questions) - 1
                /\ \A i \in 1..Len(questions) :
                      questions[i]["id"] # id
                          => \E j \in 1..Len(questions') :
                                questions'[j] = questions[i]
           ELSE /\ reply'.status = 404
                /\ questions' = questions]_vars

\* a question was deleted from a table that still holds others
C24_Witness ==
    /\ reply.route = "delete"
    /\ reply.status = 200
    /\ reply.request[1] \notin IdsIn(questions)
    /\ Len(questions) > 0

----------------------------------------------------------------------------
(* Logging in *)

\* the credentials are those of a row of admins: the username is there and
\* the SHA-256 digest of the password is what the row holds
ValidCredentials(username, password) ==
    \E k \in 1..Len(admins) :
        /\ admins[k].username = username
        /\ admins[k].password_hash = hash_password(password)

\* C25: a login with the credentials of a row of admins is answered 200
\* with a new token and adds the session of that token and that admin; any
\* other login is answered 401 and adds no session.
C25_TokenIffCredentials ==
    [][(reply'.route = "login"
            /\ <<admin_sessions, reply>>' # <<admin_sessions, reply>>)
        => IF ValidCredentials(reply'.request[1], reply'.request[2])
           THEN /\ reply'.status = 200
                /\ \A k \in 1..Len(admin_sessions) :
                      admin_sessions[k].token # reply'.body[1].token
                /\ Len(admin_sessions') = Len(admin_sessions) + 1
                /\ \A k \in 1..Len(admin_sessions) :
                      admin_sessions'[k] = admin_sessions[k]
                /\ LET session == admin_sessions'[Len(admin_sessions')] IN
                   /\ session.token = reply'.body[1].token
                   /\ \E k \in 1..Len(admins) :
                         /\ admins[k].username = reply'.request[1]
                         /\ admins[k].id = session.admin_id
           ELSE /\ reply'.status = 401
                /\ admin_sessions' = admin_sessions]_vars

\* the default admin has logged in, to a table of two admins
C25_Witness ==
    /\ reply.route = "login"
    /\ reply.status = 200
    /\ reply.request = <<"admin", "admin123">>
    /\ Len(admin_sessions) = 1
    /\ admin_sessions[1].admin_id = "a1"
    /\ Len(admins) = 2

----------------------------------------------------------------------------
(* The two entry points *)

\* the same decoded audio: the payload, the channels, and what every
\* library answers for it
SameAudio(a, b) ==
    /\ a.payload = b.payload
    /\ a.channels = b.channels
    /\ a.resample = b.resample
    /\ a.denoise = b.denoise
    /\ a.vad = b.vad
    /\ a.segments = b.segments
    /\ a.pyin = b.pyin

\* the hint of a call of detect_speech_from_bytes names the container the
\* payload is a file of, when it is one
HintFits(in) ==
    /\ ~in.mime_none
    /\ in.payload \in Containers => SelectFormat(in.mime_type) = in.payload

\* C26: a call of detect_speech_from_bytes and a call of
\* detect_speech_from_file that found the same globals and were given the
\* same audio, the hint naming its container, ran the same stages, examined
\* and verified the same spans and returned the same value through the same
\* exit, on the paths that end in a failure as on the others.
C26_FileAsBytes ==
    \A c \in Calls : \A d \in Calls \ {c} :
        LET f == call[c]
            g == call[d]
        IN  (/\ Ended(f) /\ Ended(g)
             /\ f.arg.fn = "bytes" /\ g.arg.fn = "file"
             /\ SameAudio(f.arg, g.arg)
             /\ HintFits(f.arg)
             /\ f.seen = g.seen) =>
                /\ f.ret = g.ret
                /\ f.exc = g.exc
                /\ f.exit = g.exit
                /\ f.caught = g.caught
                /\ f.ran = g.ran
                /\ f.channels = g.channels
                /\ f.samples = g.samples
                /\ f.wav = g.wav
                /\ f.vad_wav = g.vad_wav
                /\ f.speech_segments = g.speech_segments
                /\ f.examined = g.examined
                /\ f.verified = g.verified

\* the two functions were given the clip with two spans on whose first
\* pyin raises: both passed over the failure and returned True on the
\* second
C26_Witness ==
    \E c \in Calls : \E d \in Calls \ {c} :
        LET f == call[c]
            g == call[d]
        IN  /\ Ended(f) /\ Ended(g)
            /\ f.arg.fn = "bytes" /\ g.arg.fn = "file"
            /\ SameAudio(f.arg, g.arg)
            /\ f.seen = g.seen
            /\ Len(g.arg.pyin) = 2
            /\ g.arg.pyin[1].kind = "raise"
            /\ g.verified = <<1, 2>>
            /\ f.ret = "True" /\ g.ret = "True"

----------------------------------------------------------------------------
(* A call beside a reload *)

\* C27: whatever initialize_speech_detection does meanwhile, a call hands
\* the segmenter function of one load the model of the same load, and after
\* its check it never finds _utils or _model unset.
C27_OneLoadPerCall ==
    \A c \in Calls :
        LET f == call[c] IN
        /\ "vad" \in f.ran => /\ f.vad_model # None
                              /\ f.get_speech_timestamps # None
                              /\ f.vad_model = f.get_speech_timestamps
        /\ f.caught # "utils"

====
